---- MODULE Spec2Model ----
(***************************************************************************)
(* Course scheduler (src/app.py): the Faculty page reads a preference      *)
(* table, cleans its three columns and, on "Generate Timetable", runs      *)
(* generate_timetable: normalise the preferences, number the (course,slot) *)
(* pairs, build the CNF formula, call the SAT solver and decode the model. *)
(*                                                                         *)
(* Strings are sequences of one-character strings, so that strip, split    *)
(* and the lexicographic order of sorted() are computed, not assumed.      *)
(* A cell of the table is a record [na, s]: na is pandas' missing value    *)
(* (what read_csv yields for an empty field), s the text otherwise.        *)
(* pandas semantics are those of the object-dtype string columns of        *)
(* pandas 1.x/2.x, where astype(str) turns a missing value into the text   *)
(* "nan".                                                                  *)
(* A dict is a sequence of <<key, value>> entries in insertion order.      *)
(***************************************************************************)
EXTENDS Integers, Sequences, FiniteSets, TLC

VARIABLES uploaded_file, data, pc, run, courses, faculty_map, preferences,
          all_slots, slots, var_map, cnf, model, result, first

vars == <<uploaded_file, data, pc, run, courses, faculty_map, preferences,
          all_slots, slots, var_map, cnf, model, result, first>>

(* ------------------------------ strings ------------------------------ *)

NaN == [na |-> TRUE, s |-> <<>>]

Str(s) == [na |-> FALSE, s |-> s]

\* Unicode code points of the characters used, the order of Python's str <.
Code(ch) ==
  CASE ch = " " -> 32 [] ch = "," -> 44 [] ch = "0" -> 48 [] ch = "1" -> 49
    [] ch = "2" -> 50 [] ch = "3" -> 51 [] ch = "9" -> 57 [] ch = "A" -> 65
    [] ch = "B" -> 66 [] ch = "C" -> 67 [] ch = "M" -> 77 [] ch = "S" -> 83
    [] ch = "T" -> 84 [] ch = "U" -> 85 [] ch = "_" -> 95 [] ch = "a" -> 97
    [] ch = "b" -> 98 [] ch = "c" -> 99 [] ch = "d" -> 100 [] ch = "e" -> 101
    [] ch = "g" -> 103 [] ch = "i" -> 105 [] ch = "n" -> 110 [] ch = "o" -> 111
    [] ch = "s" -> 115 [] ch = "u" -> 117

Whitespace == {" "}

Unassigned == <<"U", "n", "a", "s", "s", "i", "g", "n", "e", "d">>

NanText == <<"n", "a", "n">>

RECURSIVE LStrip(_)
LStrip(s) ==
  IF s # <<>> /\ Head(s) \in Whitespace THEN LStrip(Tail(s)) ELSE s

RECURSIVE RStrip(_)
RStrip(s) ==
  IF s # <<>> /\ s[Len(s)] \in Whitespace
  THEN RStrip(SubSeq(s, 1, Len(s) - 1)) ELSE s

\* str.strip()
Strip(s) == RStrip(LStrip(s))

\* str.split(","): the pieces between commas, empty pieces kept.
RECURSIVE SplitFrom(_, _, _)
SplitFrom(s, i, cur) ==
  IF i > Len(s) THEN <<cur>>
  ELSE IF s[i] = "," THEN <<cur>> \o SplitFrom(s, i + 1, <<>>)
  ELSE SplitFrom(s, i + 1, Append(cur, s[i]))

Split(s) == SplitFrom(s, 1, <<>>)

\* a < b for Python strings
RECURSIVE StrLess(_, _)
StrLess(a, b) ==
  IF b = <<>> THEN FALSE
  ELSE IF a = <<>> THEN TRUE
  ELSE IF Code(Head(a)) # Code(Head(b)) THEN Code(Head(a)) < Code(Head(b))
  ELSE StrLess(Tail(a), Tail(b))

\* Series.astype(str): a missing value becomes the text "nan".
AsTypeStr(cell) == IF cell.na THEN Str(NanText) ELSE cell

\* Series.str.strip() on a column of str
StrStrip(cell) == IF cell.na THEN cell ELSE Str(Strip(cell.s))

\* str(x) of a cell value
PyStr(cell) == IF cell.na THEN NanText ELSE cell.s

(* ------------------------------- dicts ------------------------------- *)

DictKeys(d) == [i \in 1..Len(d) |-> d[i][1]]

DictHas(d, k) == \E i \in 1..Len(d) : d[i][1] = k

DictGet(d, k) == d[CHOOSE i \in 1..Len(d) : d[i][1] = k][2]

\* d[k] = v: an existing key keeps its place, a new key goes last.
DictPut(d, k, v) ==
  IF DictHas(d, k)
  THEN [i \in 1..Len(d) |-> IF d[i][1] = k THEN <<k, v>> ELSE d[i]]
  ELSE Append(d, <<k, v>>)

Range(q) == {q[i] : i \in 1..Len(q)}

(* ------------------- generate_timetable: normalise ------------------- *)

\* courses = data["Course"].astype(str).tolist()
CourseList(rows) == [i \in 1..Len(rows) |-> AsTypeStr(rows[i].Course).s]

\* dict(zip(data["Course"].astype(str), data["Faculty"].astype(str)))
RECURSIVE ZipDict(_, _, _)
ZipDict(rows, i, d) ==
  IF i > Len(rows) THEN d
  ELSE ZipDict(rows, i + 1,
               DictPut(d, AsTypeStr(rows[i].Course).s,
                          AsTypeStr(rows[i].Faculty).s))

FacultyMap(rows) == ZipDict(rows, 1, <<>>)

NonEmptyToken(t) == Strip(t) # <<>>

\* The tokens of one raw PreferredSlots cell: trimmed, empty ones dropped.
PrefList(cell) ==
  LET raw_slots == IF ~cell.na THEN Strip(PyStr(cell)) ELSE <<>>
  IN  IF raw_slots # <<>>
      THEN LET kept == SelectSeq(Split(raw_slots), NonEmptyToken)
           IN  [k \in 1..Len(kept) |-> Strip(kept[k])]
      ELSE <<>>

\* for _, row in data.iterrows(): preferences[course] = ...; all_slots.update
RECURSIVE CollectPrefs(_, _, _, _)
CollectPrefs(rows, i, prefs, all) ==
  IF i > Len(rows) THEN [preferences |-> prefs, all_slots |-> all]
  ELSE LET course    == PyStr(rows[i].Course)
           pref_list == PrefList(rows[i].PreferredSlots)
       IN  CollectPrefs(rows, i + 1, DictPut(prefs, course, pref_list),
                        all \cup Range(pref_list))

\* for c in courses: a course with no preference gets ["Unassigned"]
RECURSIVE Fallback(_, _, _, _)
Fallback(cs, i, prefs, all) ==
  IF i > Len(cs) THEN [preferences |-> prefs, all_slots |-> all]
  ELSE IF ~DictHas(prefs, cs[i]) \/ DictGet(prefs, cs[i]) = <<>>
       THEN Fallback(cs, i + 1, DictPut(prefs, cs[i], <<Unassigned>>),
                     all \cup {Unassigned})
       ELSE Fallback(cs, i + 1, prefs, all)

(* -------------------- generate_timetable: allocate -------------------- *)

\* The orders in which iterating a Python set may yield its elements.
RECURSIVE Orders(_)
Orders(S) ==
  IF S = {} THEN {<<>>}
  ELSE UNION {{<<x>> \o q : q \in Orders(S \ {x})} : x \in S}

RECURSIVE Insert(_, _)
Insert(x, q) ==
  IF q = <<>> THEN <<x>>
  ELSE IF StrLess(x, Head(q)) THEN <<x>> \o q
  ELSE <<Head(q)>> \o Insert(x, Tail(q))

RECURSIVE SortFrom(_, _, _)
SortFrom(q, i, acc) ==
  IF i > Len(q) THEN acc ELSE SortFrom(q, i + 1, Insert(q[i], acc))

\* Mutant of Sorted: the set's own iteration order is kept.
Unsorted(q) == q

\* sorted(list(all_slots))
Sorted(q) == SortFrom(q, 1, <<>>)

\* for c in courses: for s in slots: var_map[(c, s)] = counter; counter += 1
RECURSIVE AllocFrom(_, _, _, _, _, _)
AllocFrom(cs, ss, i, j, vm, counter) ==
  IF i > Len(cs) THEN vm
  ELSE IF j > Len(ss) THEN AllocFrom(cs, ss, i + 1, 1, vm, counter)
  ELSE AllocFrom(cs, ss, i, j + 1,
                 DictPut(vm, <<cs[i], ss[j]>>, counter), counter + 1)

VarMap(cs, ss) == AllocFrom(cs, ss, 1, 1, <<>>, 1)

(* --------------------- generate_timetable: clauses --------------------- *)

\* The index pairs of "for i in range(n): for j in range(i+1, n)", in order.
RECURSIVE PairsFrom(_, _, _)
PairsFrom(i, j, n) ==
  IF i > n THEN <<>>
  ELSE IF j > n THEN PairsFrom(i + 1, i + 2, n)
  ELSE <<<<i, j>>>> \o PairsFrom(i, j + 1, n)

Pairs(n) == PairsFrom(1, 2, n)

InVarMap(c, vm, s) == DictHas(vm, <<c, s>>)

\* Mutant of PrefVars: every variable of the course, whatever it prefers.
PrefVarsAll(c, prefs, vm) ==
  LET mine == SelectSeq(vm, LAMBDA e : e[1][1] = c)
  IN  [k \in 1..Len(mine) |-> mine[k][2]]

\* pref_vars of course c: the variables of its preferred slots
PrefVars(c, prefs, vm) ==
  LET p    == DictGet(prefs, c)
      kept == SelectSeq(p, LAMBDA s : InVarMap(c, vm, s))
  IN  [k \in 1..Len(kept) |-> DictGet(vm, <<c, kept[k]>>)]

\* Each course in at least one preferred slot
RECURSIVE Coverage(_, _, _, _)
Coverage(cs, i, prefs, vm) ==
  IF i > Len(cs) THEN <<>>
  ELSE LET pref_vars == PrefVars(cs[i], prefs, vm)
       IN  (IF pref_vars # <<>> THEN <<pref_vars>> ELSE <<>>)
           \o Coverage(cs, i + 1, prefs, vm)

\* At most one slot for course c
AtMostOneOf(c, ss, vm) ==
  LET P == Pairs(Len(ss))
  IN  [k \in 1..Len(P) |-> << -DictGet(vm, <<c, ss[P[k][1]]>>),
                              -DictGet(vm, <<c, ss[P[k][2]]>>) >>]

RECURSIVE AtMostOne(_, _, _, _)
AtMostOne(cs, i, ss, vm) ==
  IF i > Len(cs) THEN <<>>
  ELSE AtMostOneOf(cs[i], ss, vm) \o AtMostOne(cs, i + 1, ss, vm)

\* Mutant of ProfCourses: a course already in its professor's list is not
\* appended again.
RECURSIVE ProfCoursesOnce(_, _, _, _)
ProfCoursesOnce(cs, i, fm, pcs) ==
  IF i > Len(cs) THEN pcs
  ELSE LET p   == DictGet(fm, cs[i])
           old == IF DictHas(pcs, p) THEN DictGet(pcs, p) ELSE <<>>
       IN  ProfCoursesOnce(cs, i + 1, fm,
             DictPut(pcs, p, IF cs[i] \in Range(old) THEN old
                             ELSE Append(old, cs[i])))

\* prof_courses.setdefault(p, []).append(c) for c in courses
RECURSIVE ProfCourses(_, _, _, _)
ProfCourses(cs, i, fm, pcs) ==
  IF i > Len(cs) THEN pcs
  ELSE LET p   == DictGet(fm, cs[i])
           old == IF DictHas(pcs, p) THEN DictGet(pcs, p) ELSE <<>>
       IN  ProfCourses(cs, i + 1, fm, DictPut(pcs, p, Append(old, cs[i])))

\* Mutant of ClashOf: no clash clause is emitted.
NoClash(pcourses, s, vm) == <<>>

\* the clauses of one professor's courses at slot s
ClashOf(pcourses, s, vm) ==
  LET P == Pairs(Len(pcourses))
  IN  [k \in 1..Len(P) |-> << -DictGet(vm, <<pcourses[P[k][1]], s>>),
                              -DictGet(vm, <<pcourses[P[k][2]], s>>) >>]

RECURSIVE ClashAt(_, _, _, _)
ClashAt(pcs, g, s, vm) ==
  IF g > Len(pcs) THEN <<>>
  ELSE ClashOf(pcs[g][2], s, vm) \o ClashAt(pcs, g + 1, s, vm)

\* No professor clash
RECURSIVE Clash(_, _, _, _, _)
Clash(cs, ss, j, fm, vm) ==
  IF j > Len(ss) THEN <<>>
  ELSE ClashAt(ProfCourses(cs, 1, fm, <<>>), 1, ss[j], vm)
       \o Clash(cs, ss, j + 1, fm, vm)

BuildCNF(cs, ss, prefs, fm, vm) ==
  Coverage(cs, 1, prefs, vm) \o AtMostOne(cs, 1, ss, vm)
    \o Clash(cs, ss, 1, fm, vm)

(* ---------------------- generate_timetable: solve ---------------------- *)

Abs(l) == IF l < 0 THEN -l ELSE l

Max(S) == IF S = {} THEN 0 ELSE CHOOSE x \in S : \A y \in S : y <= x

\* cnf.nv: the largest variable a clause mentions
NV(f) == Max(UNION {{Abs(f[k][n]) : n \in 1..Len(f[k])} : k \in 1..Len(f)})

\* Clause cl is false whatever the variables above v get, T being the true
\* ones among 1..v.
Falsified(cl, T, v) ==
  \A n \in 1..Len(cl) :
    /\ Abs(cl[n]) <= v
    /\ IF cl[n] > 0 THEN cl[n] \notin T ELSE (-cl[n]) \in T

RECURSIVE Extend(_, _, _, _)
Extend(f, T, v, nv) ==
  IF \E k \in 1..Len(f) : Falsified(f[k], T, v) THEN {}
  ELSE IF v = nv THEN {T}
  ELSE Extend(f, T \cup {v + 1}, v + 1, nv) \cup Extend(f, T, v + 1, nv)

\* What solver.get_model() may return after solver.solve() is True: any
\* assignment of the variables 1..nv satisfying every clause, given as the
\* set of its true variables. Empty exactly when solve() is False.
Models(f) == Extend(f, {}, 0, NV(f))

(* ---------------------- generate_timetable: decode ---------------------- *)

\* for (c, s), var in var_map.items(): if var in model: timetable.append(..)
RECURSIVE Decode(_, _, _, _)
Decode(vm, k, m, fm) ==
  IF k > Len(vm) THEN <<>>
  ELSE (IF vm[k][2] \in m
        THEN <<[Course |-> vm[k][1][1], Faculty |-> DictGet(fm, vm[k][1][1]),
                Slot |-> vm[k][1][2]]>>
        ELSE <<>>)
       \o Decode(vm, k + 1, m, fm)

\* return None
None == [none |-> TRUE, rows |-> <<>>]

\* return pd.DataFrame(timetable)
DataFrame(rows) == [none |-> FALSE, rows |-> rows]

(* ------------------------------- inputs ------------------------------- *)

MaxRows == 2

MaxFieldLen == 3

CourseCells == {NaN, Str(<<"1">>), Str(<<"2">>)}

FacultyCells == {NaN, Str(<<"A">>), Str(<<"B">>)}

PrefCells == {Str(<<" ">>), Str(<<"a">>), Str(<<"a", ",", "b">>)}

Rows == [Course : CourseCells, Faculty : FacultyCells,
         PreferredSlots : PrefCells]

\* tables of at most MaxRows rows
Tables == UNION {[1..n -> Rows] : n \in 0..MaxRows}

FieldChars == {"a", "b", ",", " "}

Texts == UNION {[1..n -> FieldChars] : n \in 1..MaxFieldLen}

\* one-row tables whose PreferredSlots is missing or any text of at most
\* MaxFieldLen characters
FieldTables ==
  {<<[Course |-> Str(<<"1">>), Faculty |-> Str(<<"A">>),
      PreferredSlots |-> x]>> : x \in {NaN} \cup {Str(y) : y \in Texts}}

\* two-row tables whose identifiers carry surrounding blanks
PaddedRows ==
  [Course : {Str(<<"1">>), Str(<<"1", " ">>), Str(<<" ", "2">>)},
   Faculty : {Str(<<"A">>), Str(<<"A", " ">>), Str(<<"B">>)},
   PreferredSlots : {Str(<<"a">>), Str(<<"b", ",", "a">>)}]

PaddedTables == [1..2 -> PaddedRows]

Mon_9 == <<"M", "o", "n", "_", "9">>

Tue_9 == <<"T", "u", "e", "_", "9">>

Mon_10 == <<"M", "o", "n", "_", "1", "0">>

CS101 == <<"C", "S", "1", "0", "1">>

CS102 == <<"C", "S", "1", "0", "2">>

CS103 == <<"C", "S", "1", "0", "3">>

Prof_A == <<"A">>

Prof_B == <<"B">>

ScenarioA ==
  <<[Course |-> Str(CS101), Faculty |-> Str(Prof_A),
     PreferredSlots |-> Str(Mon_9 \o <<",">> \o Tue_9)],
    [Course |-> Str(CS102), Faculty |-> Str(Prof_B),
     PreferredSlots |-> Str(Mon_10)],
    [Course |-> Str(CS103), Faculty |-> Str(Prof_A),
     PreferredSlots |-> Str(Mon_9 \o <<",">> \o Tue_9)]>>

(* ------------------------------- actions ------------------------------- *)

NoFirst == [slots |-> <<>>, var_map |-> <<>>, cnf |-> <<>>, result |-> None]

Locals == <<courses, faculty_map, preferences, all_slots, slots, var_map,
            cnf, model, result>>

\* A preference file has been uploaded; what pd.read_csv yields for it.
Init ==
  /\ uploaded_file \in Tables \cup FieldTables \cup PaddedTables \cup {ScenarioA}
  /\ data = <<>>
  /\ pc = "start"
  /\ run = 1
  /\ courses = <<>>
  /\ faculty_map = <<>>
  /\ preferences = <<>>
  /\ all_slots = {}
  /\ slots = <<>>
  /\ var_map = <<>>
  /\ cnf = <<>>
  /\ model = {}
  /\ result = None
  /\ first = NoFirst

CleanRow(r) ==
  [Course         |-> StrStrip(AsTypeStr(r.Course)),
   Faculty        |-> StrStrip(AsTypeStr(r.Faculty)),
   PreferredSlots |-> StrStrip(AsTypeStr(r.PreferredSlots))]

\* data = pd.read_csv(uploaded_file), then
\* data[col] = data[col].astype(str).str.strip() for the three columns
Clean ==
  /\ pc = "start"
  /\ data' = [i \in 1..Len(uploaded_file) |-> CleanRow(uploaded_file[i])]
  /\ pc' = "cleaned"
  /\ UNCHANGED <<uploaded_file, run, first, Locals>>

\* "Generate Timetable" pressed: generate_timetable up to the fallback loop
Normalize ==
  /\ pc = "cleaned"
  /\ LET cs == CourseList(data)
         p1 == CollectPrefs(data, 1, <<>>, {})
         p2 == Fallback(cs, 1, p1.preferences, p1.all_slots)
     IN  /\ courses' = cs
         /\ faculty_map' = FacultyMap(data)
         /\ preferences' = p2.preferences
         /\ all_slots' = p2.all_slots
  /\ pc' = "normalized"
  /\ UNCHANGED <<uploaded_file, data, run, first, slots, var_map, cnf, model,
                 result>>

\* slots = sorted(list(all_slots)) and the var_map loop
Allocate ==
  /\ pc = "normalized"
  /\ \E order \in Orders(all_slots) :
       LET ss == Sorted(order)
       IN  /\ slots' = ss
           /\ var_map' = VarMap(courses, ss)
  /\ pc' = "allocated"
  /\ UNCHANGED <<uploaded_file, data, run, first, courses, faculty_map,
                 preferences, all_slots, cnf, model, result>>

\* the three clause loops
BuildClauses ==
  /\ pc = "allocated"
  /\ cnf' = BuildCNF(courses, slots, preferences, faculty_map, var_map)
  /\ pc' = "encoded"
  /\ UNCHANGED <<uploaded_file, data, run, first, courses, faculty_map,
                 preferences, all_slots, slots, var_map, model, result>>

\* solver.solve() is True; model = solver.get_model()
SolveSat ==
  /\ pc = "encoded"
  /\ \E m \in Models(cnf) : model' = m
  /\ pc' = "solved"
  /\ UNCHANGED <<uploaded_file, data, run, first, courses, faculty_map,
                 preferences, all_slots, slots, var_map, cnf, result>>

\* solver.solve() is False: return None
SolveUnsat ==
  /\ pc = "encoded"
  /\ Models(cnf) = {}
  /\ result' = None
  /\ pc' = "done"
  /\ UNCHANGED <<uploaded_file, data, run, first, courses, faculty_map,
                 preferences, all_slots, slots, var_map, cnf, model>>

\* the decoding loop and return pd.DataFrame(timetable)
Return ==
  /\ pc = "solved"
  /\ result' = DataFrame(Decode(var_map, 1, model, faculty_map))
  /\ pc' = "done"
  /\ UNCHANGED <<uploaded_file, data, run, first, courses, faculty_map,
                 preferences, all_slots, slots, var_map, cnf, model>>

\* "Generate Timetable" pressed again with the same upload: the script runs
\* afresh; the first call's numbering, formula and result are kept aside.
Regenerate ==
  /\ pc = "done"
  /\ run = 1
  /\ run' = 2
  /\ first' = [slots |-> slots, var_map |-> var_map, cnf |-> cnf,
               result |-> result]
  /\ data' = <<>>
  /\ courses' = <<>>
  /\ faculty_map' = <<>>
  /\ preferences' = <<>>
  /\ all_slots' = {}
  /\ slots' = <<>>
  /\ var_map' = <<>>
  /\ cnf' = <<>>
  /\ model' = {}
  /\ result' = None
  /\ pc' = "start"
  /\ UNCHANGED uploaded_file

Next ==
  \/ Clean
  \/ Normalize
  \/ Allocate
  \/ BuildClauses
  \/ SolveSat
  \/ SolveUnsat
  \/ Return
  \/ Regenerate

Spec == Init /\ [][Next]_vars

(* ------------------------------- claims ------------------------------- *)

Allocated == pc \in {"allocated", "encoded", "solved", "done"}

Encoded == pc \in {"encoded", "solved", "done"}

Var(c, s) == DictGet(var_map, <<c, s>>)

Prefs(c) == DictGet(preferences, c)

Fac(c) == DictGet(faculty_map, c)

RepeatedCourse == \E i, j \in 1..Len(courses) : i < j /\ courses[i] = courses[j]

(* C1: when a schedule is found, the returned table has exactly one row  *)
(* per course, every row's slot is in that course's preference list, and *)
(* no two rows of the same faculty have the same slot.                   *)
C1_SatTableValid ==
  (pc = "done" /\ ~result.none) =>
    LET rows == result.rows
    IN  /\ Len(rows) = Len(courses)
        /\ \A i \in 1..Len(courses) :
             Cardinality({k \in 1..Len(rows) : rows[k].Course = courses[i]}) = 1
        /\ \A k \in 1..Len(rows) :
             /\ rows[k].Slot \in Range(Prefs(rows[k].Course))
             /\ rows[k].Faculty = Fac(rows[k].Course)
        /\ \A k, l \in 1..Len(rows) :
             (k # l /\ rows[k].Faculty = rows[l].Faculty)
               => rows[k].Slot # rows[l].Slot

\* A table was returned in which two courses of one faculty sit in
\* different slots.
C1_Witness ==
  /\ pc = "done"
  /\ ~result.none
  /\ \E k, l \in 1..Len(result.rows) :
       k # l /\ result.rows[k].Faculty = result.rows[l].Faculty

(* C4: a second run on the same upload yields the same slot order, the   *)
(* same variable numbering and the same CNF formula, clause for clause,  *)
(* whatever order the slot set is iterated in and whatever model the     *)
(* solver returned.                                                      *)
C4_SameEncoding ==
  run = 2 =>
    /\ Allocated => (slots = first.slots /\ var_map = first.var_map)
    /\ Encoded => cnf = first.cnf

\* The second run finished on a formula over several slots, and its table
\* differs from the first run's: the solver returned another model.
C4_Witness ==
  /\ run = 2
  /\ pc = "done"
  /\ Len(slots) >= 2
  /\ cnf # <<>>
  /\ ~result.none
  /\ result # first.result

\* the binary clause on literals a and b, in either order
Pair(a, b) == {<<a, b>>, <<b, a>>}

Count(block, P) == Cardinality({k \in 1..Len(block) : block[k] \in P})

AmoGen ==
  {g \in (1..Len(courses)) \X (1..Len(slots)) \X (1..Len(slots)) : g[2] < g[3]}

AmoClause(g) ==
  Pair(-Var(courses[g[1]], slots[g[2]]), -Var(courses[g[1]], slots[g[3]]))

ClashGen ==
  {g \in (1..Len(slots)) \X (1..Len(courses)) \X (1..Len(courses)) :
     g[2] < g[3] /\ Fac(courses[g[2]]) = Fac(courses[g[3]])}

ClashClause(g) ==
  Pair(-Var(courses[g[2]], slots[g[1]]), -Var(courses[g[3]], slots[g[1]]))

C10_RepeatedCourseIsNone ==
  RepeatedCourse => (pc # "solved" /\ (pc = "done" => result.none))

\* None was returned for a table whose repeated course has two rows that
\* differ in faculty and in preferences.
C10_Witness ==
  /\ pc = "done"
  /\ result.none
  /\ \E i, j \in 1..Len(data) :
       /\ i < j
       /\ data[i].Course = data[j].Course
       /\ data[i].Faculty # data[j].Faculty
       /\ data[i].PreferredSlots # data[j].PreferredSlots

Normalized == pc \in {"normalized", "allocated", "encoded", "solved", "done"}

\* Row i is the last row of its course identifier: the row whose faculty
\* and preferences the dicts keep.
Winning(i) == \A j \in (i + 1)..Len(courses) : courses[j] # courses[i]

\* an assignment of the course identifiers
FeasibleIds ==
  \E f \in [Range(courses) -> Range(slots)] :
    /\ \A c \in Range(courses) : f[c] \in Range(Prefs(c))
    /\ \A c, d \in Range(courses) : (c # d /\ Fac(c) = Fac(d)) => f[c] # f[d]

RowPrefs(i) ==
  LET p == PrefList(data[i].PreferredSlots)
  IN  IF p = <<>> THEN <<Unassigned>> ELSE p

\* an assignment of the rows, each row with its own faculty and preferences
FeasibleRows ==
  \E f \in [1..Len(data) -> Range(slots)] :
    /\ \A i \in 1..Len(data) : f[i] \in Range(RowPrefs(i))
    /\ \A i, j \in 1..Len(data) :
         (i < j /\ data[i].Faculty = data[j].Faculty) => f[i] # f[j]

\* two rows of one faculty, each preferring only the same single slot
IsScenarioB ==
  /\ Len(data) = 2
  /\ data[1].Faculty = data[2].Faculty
  /\ Len(RowPrefs(1)) = 1
  /\ RowPrefs(1) = RowPrefs(2)

(* C2: generate_timetable returns None exactly when no assignment gives  *)
(* every course a slot of its own preference list with no two courses of *)
(* one faculty in one slot; Scenario B is infeasible and Scenario A has  *)
(* a schedule. "Course" is read both ways, as identifier and as row: the *)
(* formula fails only where None is returned although an assignment      *)
(* exists under both readings, or a table is returned although none      *)
(* exists for the identifiers.                                           *)
C2_NoneIffInfeasible ==
  pc = "done" =>
    /\ result.none => ~(FeasibleIds /\ FeasibleRows)
    /\ ~result.none => FeasibleIds
    /\ IsScenarioB => result.none
    /\ uploaded_file = ScenarioA => ~result.none

(* C3: the (course, slot) -> id mapping is total over courses x slots,   *)
(* the ids 1..rows*slots are each used exactly once, and the pair of row *)
(* i and the j-th slot in sorted order has the id (i-1)*slots + j.       *)
C3_Bijection ==
  Allocated =>
    LET n == Len(courses)
        m == Len(slots)
    IN  /\ Range(slots) = all_slots
        /\ \A j \in 1..(m - 1) : StrLess(slots[j], slots[j + 1])
        /\ Range(DictKeys(var_map)) = Range(courses) \X Range(slots)
        /\ Len(var_map) = n * m
        /\ {var_map[k][2] : k \in 1..Len(var_map)} = 1..(n * m)
        /\ \A i \in 1..n : \A j \in 1..m :
             Var(courses[i], slots[j]) = (i - 1) * m + j

\* missing, empty or all-whitespace
Blank(cell) == cell.na \/ \A k \in 1..Len(cell.s) : cell.s[k] \in Whitespace

(* C5: a course whose preferred-slots field is missing, empty or blank   *)
(* has the preference list ["Unassigned"], "Unassigned" is in the slot   *)
(* universe, no course has an empty preference list, and a returned      *)
(* table places that course at "Unassigned".                             *)
C5_BlankIsUnassigned ==
  Normalized =>
    /\ \A c \in Range(courses) : Prefs(c) # <<>>
    /\ \A i \in 1..Len(uploaded_file) :
         (Winning(i) /\ Blank(uploaded_file[i].PreferredSlots)) =>
           /\ Prefs(courses[i]) = <<Unassigned>>
           /\ Unassigned \in all_slots
           /\ Allocated => Unassigned \in Range(slots)
           /\ (pc = "done" /\ ~result.none) =>
                \E k \in 1..Len(result.rows) :
                  /\ result.rows[k].Course = courses[i]
                  /\ result.rows[k].Slot = Unassigned

Min(S) == CHOOSE x \in S : \A y \in S : x <= y

\* x without its leading and trailing whitespace
Trim(x) ==
  LET idx == {k \in 1..Len(x) : x[k] \notin Whitespace}
  IN  IF idx = {} THEN <<>> ELSE SubSeq(x, Min(idx), Max(idx))

\* The non-empty trimmed pieces of s after position a, a piece ending at
\* the next comma or at the end of s.
RECURSIVE TokensFrom(_, _)
TokensFrom(s, a) ==
  LET b   == Min({k \in (a + 1)..Len(s) : s[k] = ","} \cup {Len(s) + 1})
      tok == Trim(SubSeq(s, a + 1, b - 1))
  IN  (IF tok # <<>> THEN <<tok>> ELSE <<>>)
      \o (IF b > Len(s) THEN <<>> ELSE TokensFrom(s, b))

Tokens(s) == TokensFrom(s, 0)

(* C6: a course's preference list is its raw field split on commas, each *)
(* token trimmed, empty tokens dropped, in order; and no label occurs    *)
(* twice in it.                                                          *)
C6_TokensDistinct ==
  Normalized =>
    \A i \in 1..Len(uploaded_file) :
      Winning(i) =>
        LET cell == uploaded_file[i].PreferredSlots
            got  == Prefs(courses[i])
        IN  /\ (~cell.na /\ Tokens(cell.s) # <<>>) => got = Tokens(cell.s)
            /\ \A k, l \in 1..Len(got) : k # l => got[k] # got[l]

MissingId ==
  \E i \in 1..Len(uploaded_file) :
    uploaded_file[i].Course.na \/ uploaded_file[i].Faculty.na

(* C7: a table with a row lacking its course or faculty identifier is    *)
(* rejected before any clause is built: no formula, no solve, no result. *)
C7_MissingIdRejected == MissingId => (~Encoded /\ cnf = <<>>)

(* C8: an empty slot universe is rejected instead of being encoded and   *)
(* solved, and a table with at least one row has a non-empty universe.   *)
C8_EmptyUniverseRejected ==
  /\ Encoded => slots # <<>>
  /\ (Allocated /\ Len(uploaded_file) >= 1) => slots # <<>>

====
